---- MODULE Spec2Model ----
(***************************************************************************)
(* A model of src/data_handler.py (class Data_Handler): the four retrieval *)
(* pipelines get_data_HDI, get_data_IDMC, get_data_WB and get_data_GIDD,   *)
(* and the wide-to-long reshape reshape_long_HDI.                          *)
(*                                                                         *)
(* Python values are tagged records [t, v]: None, NA (a missing cell),     *)
(* int, str and list.  A str is a sequence of one-character strings, so    *)
(* that strip, lower, replace, startswith, rsplit and int() are computed   *)
(* character by character.  A dict is a sequence of <<key, value>> pairs   *)
(* (insertion order is kept, as in Python).  A DataFrame is                *)
(* [cols |-> names, rows |-> rows], each row a sequence of cells aligned   *)
(* with cols.  A call's outcome is [st |-> "ok" | "error", exc, df].       *)
(***************************************************************************)
EXTENDS Integers, Sequences, FiniteSets, TLC

VARIABLES
    fn,           \* the function being called
    pc,           \* position in it: "call", "fetching", "done"
    args,         \* its arguments
    csv,          \* the file read_csv reads (HDI, IDMC)
    base_url,     \* get_data_GIDD: local base_url
    params,       \* get_data_GIDD: local params
    all_records,  \* get_data_GIDD: local all_records
    all_data,     \* get_data_WB: local all_data
    sent,         \* requests issued so far (requests.get / wbdata.get_data)
    got,          \* responses received so far
    ret           \* the call's outcome

vars == <<fn, pc, args, csv, base_url, params, all_records, all_data, sent, got, ret>>

----------------------------------------------------------------------------
(* Python values *)

None == [t |-> "none", v |-> 0]
NA == [t |-> "na", v |-> 0]
PyInt(n) == [t |-> "int", v |-> n]
PyStr(s) == [t |-> "str", v |-> s]
PyList(l) == [t |-> "list", v |-> l]

\* bool(x) as `if x:` evaluates it
Truthy(x) ==
    CASE x.t = "none" -> FALSE
      [] x.t = "na" -> TRUE
      [] x.t = "int" -> x.v # 0
      [] x.t = "str" -> Len(x.v) > 0
      [] x.t = "list" -> Len(x.v) > 0
      [] x.t = "dict" -> Len(x.v) > 0

SeqToSet(s) == {s[i] : i \in 1..Len(s)}

RECURSIVE Flatten(_)
Flatten(ss) == IF ss = <<>> THEN <<>> ELSE Head(ss) \o Flatten(Tail(ss))

IndexOf(s, x) == IF \E i \in 1..Len(s) : s[i] = x
                 THEN CHOOSE i \in 1..Len(s) : s[i] = x /\ \A j \in 1..(i - 1) : s[j] # x
                 ELSE 0

----------------------------------------------------------------------------
(* str methods *)

UpperToLower ==
    [c \in {"A", "B", "C", "D", "E", "F", "G", "H", "I", "J", "K", "L", "M", "N", "O", "P", "Q", "R", "S", "T", "U", "V", "W", "X", "Y", "Z"} |->
        CASE c = "A" -> "a"
          [] c = "B" -> "b"
          [] c = "C" -> "c"
          [] c = "D" -> "d"
          [] c = "E" -> "e"
          [] c = "F" -> "f"
          [] c = "G" -> "g"
          [] c = "H" -> "h"
          [] c = "I" -> "i"
          [] c = "J" -> "j"
          [] c = "K" -> "k"
          [] c = "L" -> "l"
          [] c = "M" -> "m"
          [] c = "N" -> "n"
          [] c = "O" -> "o"
          [] c = "P" -> "p"
          [] c = "Q" -> "q"
          [] c = "R" -> "r"
          [] c = "S" -> "s"
          [] c = "T" -> "t"
          [] c = "U" -> "u"
          [] c = "V" -> "v"
          [] c = "W" -> "w"
          [] c = "X" -> "x"
          [] c = "Y" -> "y"
          [] c = "Z" -> "z"]

LowerChar(c) == IF c \in DOMAIN UpperToLower THEN UpperToLower[c] ELSE c

\* s.lower()
Lower(s) == [i \in 1..Len(s) |-> LowerChar(s[i])]

RECURSIVE LStrip(_)
LStrip(s) == IF s # <<>> /\ Head(s) = " " THEN LStrip(Tail(s)) ELSE s

RECURSIVE RStrip(_)
RStrip(s) == IF s # <<>> /\ s[Len(s)] = " " THEN RStrip(SubSeq(s, 1, Len(s) - 1)) ELSE s

\* s.strip()
Strip(s) == RStrip(LStrip(s))

\* s.replace(" ", "_")
ReplaceSpace(s) == [i \in 1..Len(s) |-> IF s[i] = " " THEN "_" ELSE s[i]]

\* s.startswith(p)
StartsWith(s, p) == Len(p) <= Len(s) /\ SubSeq(s, 1, Len(p)) = p

\* position of the last "_" of s, 0 when there is none
LastUnderscore(s) ==
    IF \E i \in 1..Len(s) : s[i] = "_"
    THEN CHOOSE i \in 1..Len(s) : s[i] = "_" /\ \A j \in (i + 1)..Len(s) : s[j] # "_"
    ELSE 0

\* s.rsplit('_', n=1): one part when s has no "_", else two
RSplit1(s) ==
    LET k == LastUnderscore(s)
    IN IF k = 0 THEN <<s>> ELSE <<SubSeq(s, 1, k - 1), SubSeq(s, k + 1, Len(s))>>

Digits == {"0", "1", "2", "3", "4", "5", "6", "7", "8", "9"}

DigitVal(c) ==
    CASE c = "0" -> 0 [] c = "1" -> 1 [] c = "2" -> 2 [] c = "3" -> 3 [] c = "4" -> 4
      [] c = "5" -> 5 [] c = "6" -> 6 [] c = "7" -> 7 [] c = "8" -> 8 [] c = "9" -> 9

IsDigits(s) == Len(s) > 0 /\ \A i \in 1..Len(s) : s[i] \in Digits

RECURSIVE DigitsVal(_)
DigitsVal(s) == IF s = <<>> THEN 0
                ELSE 10 * DigitsVal(SubSeq(s, 1, Len(s) - 1)) + DigitVal(s[Len(s)])

\* a decimal literal with an optional sign
IsIntLiteral(s) ==
    \/ IsDigits(s)
    \/ Len(s) > 1 /\ s[1] \in {"-", "+"} /\ IsDigits(Tail(s))

IntLiteralVal(s) ==
    IF s[1] = "-" THEN 0 - DigitsVal(Tail(s))
    ELSE IF s[1] = "+" THEN DigitsVal(Tail(s))
    ELSE DigitsVal(s)

----------------------------------------------------------------------------
(* DataFrame *)

DF(cols, rows) == [cols |-> cols, rows |-> rows]

EmptyDF == DF(<<>>, <<>>)

Ok(df) == [st |-> "ok", exc |-> "", df |-> df]

Raise(exc) == [st |-> "error", exc |-> exc, df |-> EmptyDF]

NoRet == [st |-> "none", exc |-> "", df |-> EmptyDF]

HasCol(df, c) == \E i \in 1..Len(df.cols) : df.cols[i] = c

\* row[c] of a row of df
Cell(df, row, c) == row[IndexOf(df.cols, c)]

\* df[c]: the cells of column c, one per row
Col(df, c) == [r \in 1..Len(df.rows) |-> Cell(df, df.rows[r], c)]

\* df[mask], mask a boolean per row: the rows whose mask is true, in their order
FilterRows(df, mask) ==
    LET kept == SelectSeq([r \in 1..Len(df.rows) |-> r], LAMBDA r : mask[r])
    IN DF(df.cols, [k \in 1..Len(kept) |-> df.rows[kept[k]]])

\* df[names]: the named columns in the order of names
SelectCols(df, names) ==
    DF(names, [r \in 1..Len(df.rows) |->
                  [k \in 1..Len(names) |-> Cell(df, df.rows[r], names[k])]])

\* df.columns.str.strip().str.lower().str.replace(' ', '_')
NormalizeName(c) == ReplaceSpace(Lower(Strip(c)))

NormalizeColumns(df) == DF([i \in 1..Len(df.cols) |-> NormalizeName(df.cols[i])], df.rows)

\* pd.to_numeric(x, errors="coerce") then .astype("Int64"), on one cell
ToNumeric(x) ==
    CASE x.t = "int" -> x
      [] x.t = "str" -> IF IsIntLiteral(x.v) THEN PyInt(IntLiteralVal(x.v)) ELSE NA
      [] OTHER -> NA

\* df[c] = cells
SetCol(df, c, cells) ==
    LET k == IndexOf(df.cols, c)
    IN DF(df.cols, [r \in 1..Len(df.rows) |->
                      [j \in 1..Len(df.cols) |-> IF j = k THEN cells[r] ELSE df.rows[r][j]]])

\* the mask df[c] >= y of a nullable or plain integer column: NA selects nothing
YearGE(x, y) == x.t = "int" /\ x.v >= y

YearLE(x, y) == x.t = "int" /\ x.v <= y

\* the mask df[c].str.lower() == s.lower(): a missing cell matches nothing
LowerEq(x, s) == x.t = "str" /\ Lower(x.v) = Lower(s)

----------------------------------------------------------------------------
(* column names and literals of the source *)

iso3 == <<"i", "s", "o", "3">>
year == <<"y", "e", "a", "r">>
start_date == <<"s", "t", "a", "r", "t", "_", "d", "a", "t", "e">>
hazard_category_name ==
    <<"h", "a", "z", "a", "r", "d", "_", "c", "a", "t", "e", "g", "o", "r", "y", "_",
      "n", "a", "m", "e">>
hazard_type_name ==
    <<"h", "a", "z", "a", "r", "d", "_", "t", "y", "p", "e", "_", "n", "a", "m", "e">>
country == <<"c", "o", "u", "n", "t", "r", "y">>
region == <<"r", "e", "g", "i", "o", "n">>
all == <<"a", "l", "l">>

\* `x in (None, "all")`
IsNoneOrAll(x) == x = None \/ x = PyStr(all)

\* a dict's keys and, for list(x), the elements of a list or the keys of a dict
Keys(d) == [i \in 1..Len(d) |-> d[i][1]]

Values(d) == [i \in 1..Len(d) |-> d[i][2]]

HasKey(d, k) == \E i \in 1..Len(d) : d[i][1] = k

Lookup(d, k) == d[IndexOf(Keys(d), k)][2]

PyDict(d) == [t |-> "dict", v |-> d]

ListOf(x) == IF x.t = "dict" THEN Keys(x.v) ELSE x.v

\* df[mask] where mask is computed from df[c]: KeyError when the column is absent
FilterOn(df, c, mask) == IF HasCol(df, c) THEN Ok(FilterRows(df, mask)) ELSE Raise("KeyError")

\* df[names]: KeyError when a name is absent
Select(df, names) ==
    IF \A i \in 1..Len(names) : HasCol(df, names[i]) THEN Ok(SelectCols(df, names))
    ELSE Raise("KeyError")

\* df.rename(columns=mapping): names that are keys are replaced, others kept
Rename(df, mapping) ==
    DF([i \in 1..Len(df.cols) |-> IF HasKey(mapping, df.cols[i])
                                  THEN Lookup(mapping, df.cols[i]) ELSE df.cols[i]],
       df.rows)

\* df["year"] = pd.to_numeric(df["year"], errors="coerce").astype("Int64")
CoerceYear(df) ==
    IF HasCol(df, year)
    THEN Ok(SetCol(df, year, [r \in 1..Len(df.rows) |-> ToNumeric(Col(df, year)[r])]))
    ELSE Raise("KeyError")

----------------------------------------------------------------------------
(* get_data_GIDD *)

\* "https://helix-tools-api.idmcdb.org/external-api/gidd/disasters/"
GIDD_base_url ==
    <<"h", "t", "t", "p", "s", ":", "/", "/", "h", "e", "l", "i", "x", "-", "t", "o", "o",
      "l", "s", "-", "a", "p", "i", ".", "i", "d", "m", "c", "d", "b", ".", "o", "r", "g",
      "/", "e", "x", "t", "e", "r", "n", "a", "l", "-", "a", "p", "i", "/", "g", "i", "d",
      "d", "/", "d", "i", "s", "a", "s", "t", "e", "r", "s", "/">>

DefaultLimit == 500

\* params = {"client_id": client_id, "limit": limit}
GIDDParams(a) == <<<<"client_id", a.client_id>>, <<"limit", a.limit>>>>

\* a key a JSON object does not have
Absent == [t |-> "absent", v |-> 0]

\* js.get(key, default)
JsGet(x, default) == IF x.t = "absent" THEN default ELSE x

\* a raise_for_status that lets client errors through
RaisesForStatus_ServerOnly(status) == status >= 500 /\ status < 600

\* r.raise_for_status(): raises for a 4xx or 5xx status
RaisesForStatus(status) == status >= 400 /\ status < 600

\* `if "next" in js:` in place of `if js.get("next"):`
HasNext_KeyPresent(js) == js.next.t # "absent"

\* if js.get("next"):
HasNext(js) == Truthy(JsGet(js.next, None))

\* all_records = js.get("results", []) in place of extend
ExtendRecords_Overwrite(records, js) == JsGet(js.results, PyList(<<>>)).v

\* all_records.extend(js.get("results", []))
ExtendRecords(records, js) == records \o JsGet(js.results, PyList(<<>>)).v

\* pd.DataFrame(records), records a list of dicts: the columns are the keys in the
\* order they first appear, a key a record lacks is a missing cell
RECURSIVE UnionKeys(_, _)
UnionKeys(records, seen) ==
    IF records = <<>> THEN seen
    ELSE LET new == SelectSeq(Keys(Head(records)), LAMBDA k : k \notin SeqToSet(seen))
         IN UnionKeys(Tail(records), seen \o new)

DataFrameOfRecords(records) ==
    LET cols == UnionKeys(records, <<>>)
    IN DF(cols, [r \in 1..Len(records) |->
                   [k \in 1..Len(cols) |-> IF HasKey(records[r], cols[k])
                                           THEN Lookup(records[r], cols[k]) ELSE NA]])

\* if iso3 not in (None, "all"): df = df[df["iso3"].isin([c.strip() for c in iso3])]
GIDDFilterIso3(df, x) ==
    IF IsNoneOrAll(x) THEN Ok(df)
    ELSE LET codes == IF x.t = "str" THEN <<x.v>> ELSE x.v
             stripped == {Strip(codes[i]) : i \in 1..Len(codes)}
         IN FilterOn(df, iso3, [r \in 1..Len(df.rows) |->
                                  Col(df, iso3)[r].t = "str" /\ Col(df, iso3)[r].v \in stripped])

\* if start_year: df = df[df["year"] >= start_year]
FilterStartYear(df, y) ==
    IF Truthy(y)
    THEN FilterOn(df, year, [r \in 1..Len(df.rows) |-> YearGE(Col(df, year)[r], y.v)])
    ELSE Ok(df)

\* if end_year: df = df[df["year"] <= end_year]
FilterEndYear(df, y) ==
    IF Truthy(y)
    THEN FilterOn(df, year, [r \in 1..Len(df.rows) |-> YearLE(Col(df, year)[r], y.v)])
    ELSE Ok(df)

\* if hazard_category_name: df = df[df[col].str.lower() == hazard_category_name.lower()]
FilterHazard(df, col, h) ==
    IF Truthy(h)
    THEN FilterOn(df, col, [r \in 1..Len(df.rows) |-> LowerEq(Col(df, col)[r], h.v)])
    ELSE Ok(df)

\* the indicator selection of get_data_GIDD
GIDDSelect(df, indicators) ==
    LET base_cols == <<iso3, year, start_date>>
    IN IF IsNoneOrAll(indicators) THEN Ok(df)
       ELSE Select(df, base_cols \o ListOf(indicators))

\* get_data_GIDD after the loop: DataFrame, column names, year, filters, selection,
\* reset_index (rows are a sequence: the index is always 0..n-1)
GIDDFrame(records, a) ==
    LET df0 == DataFrameOfRecords(records)
        r1 == CoerceYear(NormalizeColumns(df0))
        r2 == IF r1.st = "ok" THEN GIDDFilterIso3(r1.df, a.iso3) ELSE r1
        r3 == IF r2.st = "ok" THEN FilterStartYear(r2.df, a.start_year) ELSE r2
        r4 == IF r3.st = "ok" THEN FilterEndYear(r3.df, a.end_year) ELSE r3
        r5 == IF r4.st = "ok"
              THEN FilterHazard(r4.df, hazard_category_name, a.hazard_category_name) ELSE r4
        r6 == IF r5.st = "ok"
              THEN FilterHazard(r5.df, hazard_type_name, a.hazard_type_name) ELSE r5
    IN \* a frame built from no record has no column names to normalize
       IF df0.cols = <<>> THEN Raise("Exception")
       ELSE IF r6.st = "ok" THEN GIDDSelect(r6.df, a.indicators) ELSE r6

\* one pass of the loop `while True` of get_data_GIDD: the request, and what the
\* response resp leads to; the pass that breaks the loop runs the rest of the function
GIDDRequest(resp) ==
    /\ fn = "GIDD"
    /\ pc = "fetching"
    /\ sent' = Append(sent, [url |-> base_url, params |-> params])
    /\ got' = Append(got, resp)
    /\ IF RaisesForStatus(resp.status)
       THEN /\ pc' = "done"
            /\ ret' = Raise("HTTPError")
            /\ UNCHANGED <<base_url, params, all_records>>
       ELSE LET js == resp.js
                records == ExtendRecords(all_records, js)
            IN /\ all_records' = records
               /\ IF HasNext(js)
                  THEN /\ base_url' = js.next.v
                       /\ params' = <<>>
                       /\ UNCHANGED <<pc, ret>>
                  ELSE /\ pc' = "done"
                       /\ ret' = GIDDFrame(records, args)
                       /\ UNCHANGED <<base_url, params>>
    /\ UNCHANGED <<fn, args, csv, all_data>>

----------------------------------------------------------------------------
(* get_data_IDMC *)

\* if iso3: df = df[df["iso3"].isin(iso3)], a str standing for a list of one
IDMCFilterIso3(df, x) ==
    IF Truthy(x)
    THEN LET codes == IF x.t = "str" THEN <<x.v>> ELSE x.v
         IN FilterOn(df, iso3, [r \in 1..Len(df.rows) |->
                                  Col(df, iso3)[r].t = "str"
                                  /\ Col(df, iso3)[r].v \in SeqToSet(codes)])
    ELSE Ok(df)

\* the indicator handling of get_data_IDMC
IDMCSelect(df, indicators) ==
    LET base_cols == <<iso3, start_date, year>>
    IN IF IsNoneOrAll(indicators)
       THEN Select(df, base_cols \o SelectSeq(df.cols, LAMBDA c : c \notin SeqToSet(base_cols)))
       ELSE IF indicators.t # "dict" THEN Raise("AttributeError")
       ELSE LET selected == Select(df, base_cols \o Keys(indicators.v))
            IN IF selected.st = "ok" THEN Ok(Rename(selected.df, indicators.v)) ELSE selected

\* get_data_IDMC: the whole function, file being what read_csv returns
get_data_IDMC(file, a) ==
    LET r1 == CoerceYear(NormalizeColumns(file))
        r2 == IF r1.st = "ok" THEN IDMCFilterIso3(r1.df, a.iso3) ELSE r1
        r3 == IF r2.st = "ok" THEN FilterStartYear(r2.df, a.start_year) ELSE r2
        r4 == IF r3.st = "ok" THEN FilterEndYear(r3.df, a.end_year) ELSE r3
        r5 == IF r4.st = "ok"
              THEN FilterHazard(r4.df, hazard_category_name, a.hazard_category_name) ELSE r4
        r6 == IF r5.st = "ok"
              THEN FilterHazard(r5.df, hazard_type_name, a.hazard_type_name) ELSE r5
    IN IF r6.st = "ok" THEN IDMCSelect(r6.df, a.indicators) ELSE r6

CallIDMC ==
    /\ fn = "IDMC"
    /\ pc = "call"
    /\ pc' = "done"
    /\ ret' = get_data_IDMC(csv, args)
    /\ UNCHANGED <<fn, args, csv, base_url, params, all_records, all_data, sent, got>>

----------------------------------------------------------------------------
(* reshape_long_HDI and get_data_HDI *)

metric_year == <<"m", "e", "t", "r", "i", "c", "_", "y", "e", "a", "r">>
value == <<"v", "a", "l", "u", "e">>
metric == <<"m", "e", "t", "r", "i", "c">>
metric_name == <<"m", "e", "t", "r", "i", "c", "_", "n", "a", "m", "e">>

\* a selection that takes every column but the identity columns
IsValueVar_AllOthers(col, indicators) == col \notin {iso3, country, region}

\* any(col.startswith(prefix + "_") for prefix in indicators.keys())
IsValueVar(col, indicators) ==
    \E i \in 1..Len(indicators) : StartsWith(col, indicators[i][1] \o <<"_">>)

\* df.melt(id_vars, value_vars, var_name='metric_year', value_name='value'): for each
\* value column in turn, one row per row of df
Melt(df, id_vars, value_vars) ==
    DF(id_vars \o <<metric_year, value>>,
       Flatten([k \in 1..Len(value_vars) |->
                  [r \in 1..Len(df.rows) |->
                     [j \in 1..Len(id_vars) |-> Cell(df, df.rows[r], id_vars[j])]
                     \o <<PyStr(value_vars[k]), Cell(df, df.rows[r], value_vars[k])>>]]))

\* .str.rsplit('_', n=1, expand=True) on one name
SplitMetricYear(s) == RSplit1(s)

\* long_df['metric'].map(indicators) on one cell: missing when it is no key
MapIndicator(m, indicators) == IF HasKey(indicators, m) THEN PyStr(Lookup(indicators, m)) ELSE NA

reshape_long_HDI(df, indicators) ==
    LET id_vars == <<iso3, country, region>>
        value_vars == SelectSeq(df.cols, LAMBDA col : IsValueVar(col, indicators))
    IN IF \E i \in 1..Len(id_vars) : ~HasCol(df, id_vars[i]) THEN Raise("KeyError")
       ELSE LET long_df == Melt(df, id_vars, value_vars)
                parts == [r \in 1..Len(long_df.rows) |->
                            SplitMetricYear(Cell(long_df, long_df.rows[r], metric_year).v)]
            IN \* expand=True gives as many columns as the longest split, none for no row
               IF long_df.rows = <<>> \/ \E r \in 1..Len(parts) : Len(parts[r]) # 2
               THEN Raise("ValueError")
               \* .astype(int)
               ELSE IF \E r \in 1..Len(parts) : ~IsIntLiteral(parts[r][2])
               THEN Raise("ValueError")
               ELSE Ok(DF(id_vars \o <<value, metric, year, metric_name>>,
                          [r \in 1..Len(long_df.rows) |->
                             SubSeq(long_df.rows[r], 1, Len(id_vars))
                             \o <<Cell(long_df, long_df.rows[r], value),
                                  PyStr(parts[r][1]),
                                  PyInt(IntLiteralVal(parts[r][2])),
                                  MapIndicator(parts[r][1], indicators)>>]))

\* if countries is not None: the rows whose country, lowercased, is among them
HDIFilterCountries(df, x) ==
    IF x = None THEN Ok(df)
    ELSE LET names == IF x.t = "str" THEN <<x.v>> ELSE x.v
             lowered == {Lower(names[i]) : i \in 1..Len(names)}
         IN FilterOn(df, country, [r \in 1..Len(df.rows) |->
                                     Col(df, country)[r].t = "str"
                                     /\ Lower(Col(df, country)[r].v) \in lowered])

\* if start_year is not None: df = df[df[col] >= start_year]
FilterFromYear(df, col, y) ==
    IF y # None
    THEN FilterOn(df, col, [r \in 1..Len(df.rows) |-> YearGE(Col(df, col)[r], y.v)])
    ELSE Ok(df)

\* if end_year is not None: df = df[df[col] <= end_year]
FilterToYear(df, col, y) ==
    IF y # None
    THEN FilterOn(df, col, [r \in 1..Len(df.rows) |-> YearLE(Col(df, col)[r], y.v)])
    ELSE Ok(df)

get_data_HDI(file, a) ==
    LET r1 == reshape_long_HDI(NormalizeColumns(file), a.indicators.v)
        r2 == IF r1.st = "ok" THEN HDIFilterCountries(r1.df, a.countries) ELSE r1
        r3 == IF r2.st = "ok" THEN FilterFromYear(r2.df, year, a.start_year) ELSE r2
    IN IF r3.st = "ok" THEN FilterToYear(r3.df, year, a.end_year) ELSE r3

CallHDI ==
    /\ fn = "HDI"
    /\ pc = "call"
    /\ pc' = "done"
    /\ ret' = get_data_HDI(csv, args)
    /\ UNCHANGED <<fn, args, csv, base_url, params, all_records, all_data, sent, got>>

\* a direct call of the static method reshape_long_HDI on the table csv
CallReshape ==
    /\ fn = "reshape_long_HDI"
    /\ pc = "call"
    /\ pc' = "done"
    /\ ret' = reshape_long_HDI(csv, args.indicators.v)
    /\ UNCHANGED <<fn, args, csv, base_url, params, all_records, all_data, sent, got>>

----------------------------------------------------------------------------
(* get_data_WB *)

Country == <<"C", "o", "u", "n", "t", "r", "y">>
ISO3 == <<"I", "S", "O", "3">>
Year == <<"Y", "e", "a", "r">>

\* the characters of the model in code point order, for the order of str values
CodePoints ==
    <<" ", "+", "-", "0", "1", "2", "3", "4", "5", "6", "7", "8", "9",
      "A", "B", "C", "D", "E", "F", "G", "H", "I", "J", "K", "L", "M", "N", "O", "P", "Q",
      "R", "S", "T", "U", "V", "W", "X", "Y", "Z", "_",
      "a", "b", "c", "d", "e", "f", "g", "h", "i", "j", "k", "l", "m", "n", "o", "p", "q",
      "r", "s", "t", "u", "v", "w", "x", "y", "z">>

RECURSIVE StrLess(_, _)
StrLess(a, b) ==
    IF a = <<>> THEN b # <<>>
    ELSE IF b = <<>> THEN FALSE
    ELSE IF Head(a) = Head(b) THEN StrLess(Tail(a), Tail(b))
    ELSE IndexOf(CodePoints, Head(a)) < IndexOf(CodePoints, Head(b))

\* the order of the join keys (Country, ISO3, Year)
KeyLess(k1, k2) ==
    \/ StrLess(k1[1].v, k2[1].v)
    \/ k1[1] = k2[1] /\ StrLess(k1[2].v, k2[2].v)
    \/ k1[1] = k2[1] /\ k1[2] = k2[2] /\ k1[3].v < k2[3].v

RECURSIVE SortKeys(_)
SortKeys(S) ==
    IF S = {} THEN <<>>
    ELSE LET m == CHOOSE x \in S : \A y \in S \ {x} : KeyLess(x, y)
         IN <<m>> \o SortKeys(S \ {m})

\* the rows appended for one indicator, lines 167-180: ValueError when a date is no
\* integer; the ISO3 code is countryiso3code, or country.id when the record has none
WBRows(raw_data) ==
    [r \in 1..Len(raw_data) |->
        <<PyStr(raw_data[r].country.value),
          PyStr(JsGet(raw_data[r].countryiso3code, PyStr(raw_data[r].country.id)).v),
          PyInt(IntLiteralVal(raw_data[r].date)),
          IF raw_data[r].value = None THEN NA ELSE raw_data[r].value>>]

\* pd.DataFrame(rows): a table without columns when there is no row
WBTable(raw_data, name) ==
    IF \E r \in 1..Len(raw_data) : ~IsIntLiteral(raw_data[r].date) THEN Raise("ValueError")
    ELSE IF raw_data = <<>> THEN Ok(EmptyDF)
    ELSE Ok(DF(<<Country, ISO3, Year, name>>, WBRows(raw_data)))

\* the keys of an outer join: those of either table, sorted
JoinKeys(left, right, on) ==
    SortKeys({[k \in 1..Len(on) |-> Cell(left, left.rows[r], on[k])] : r \in 1..Len(left.rows)}
             \cup
             {[k \in 1..Len(on) |-> Cell(right, right.rows[r], on[k])] : r \in 1..Len(right.rows)})

\* pd.merge(left, right, on=on, how='outer'): KeyError when a table lacks a key
\* column; per key, every pairing of the left and right rows that have it, or the
\* rows of one side with the other side's columns missing; a column name the two
\* share gets the suffixes _x and _y
Merge(left, right, on) ==
    IF \E k \in 1..Len(on) : ~HasCol(left, on[k]) \/ ~HasCol(right, on[k])
    THEN Raise("KeyError")
    ELSE LET isKey(c) == c \in SeqToSet(on)
             rrest == SelectSeq(right.cols, LAMBDA c : ~isKey(c))
             shared(c) == ~isKey(c) /\ HasCol(left, c) /\ HasCol(right, c)
             keyOf(df, row) == [k \in 1..Len(on) |-> Cell(df, row, on[k])]
             cols == [i \in 1..Len(left.cols) |->
                         IF shared(left.cols[i]) THEN left.cols[i] \o <<"_", "x">>
                         ELSE left.cols[i]]
                     \o [i \in 1..Len(rrest) |->
                            IF shared(rrest[i]) THEN rrest[i] \o <<"_", "y">> ELSE rrest[i]]
             rightCells(row) == [i \in 1..Len(rrest) |-> Cell(right, row, rrest[i])]
             rightOnly(key) == [i \in 1..Len(left.cols) |->
                                  IF isKey(left.cols[i]) THEN key[IndexOf(on, left.cols[i])]
                                  ELSE NA]
             missingRight == [i \in 1..Len(rrest) |-> NA]
             rowsOf(key) ==
                 LET L == SelectSeq(left.rows, LAMBDA row : keyOf(left, row) = key)
                     R == SelectSeq(right.rows, LAMBDA row : keyOf(right, row) = key)
                 IN IF L # <<>> /\ R # <<>>
                    THEN Flatten([i \in 1..Len(L) |->
                                    [j \in 1..Len(R) |-> L[i] \o rightCells(R[j])]])
                    ELSE IF R = <<>> THEN [i \in 1..Len(L) |-> L[i] \o missingRight]
                    ELSE [j \in 1..Len(R) |-> rightOnly(key) \o rightCells(R[j])]
             keys == JoinKeys(left, right, on)
         IN Ok(DF(cols, Flatten([k \in 1..Len(keys) |-> rowsOf(keys[k])])))

\* reduce(lambda left, right: pd.merge(...), all_data), all_data not empty
RECURSIVE ReduceMerge(_, _, _)
ReduceMerge(acc, rest, on) ==
    IF rest = <<>> \/ acc.st # "ok" THEN acc
    ELSE ReduceMerge(Merge(acc.df, Head(rest), on), Tail(rest), on)

\* a merge step that fails on an empty list of tables, as reduce does without the
\* `if all_data` guard
MergeAll_Unguarded(tables, indicators) ==
    IF tables # <<>> THEN ReduceMerge(Ok(Head(tables)), Tail(tables), <<Country, ISO3, Year>>)
    ELSE Raise("TypeError")

\* lines 185-188
MergeAll(tables, indicators) ==
    IF tables # <<>> THEN ReduceMerge(Ok(Head(tables)), Tail(tables), <<Country, ISO3, Year>>)
    ELSE Ok(DF(<<Country, ISO3, Year>> \o Values(indicators), <<>>))

\* lines 196-198
WBReorder(df, indicators) ==
    LET cols == <<Country, ISO3, Year>> \o Values(indicators)
    IN Ok(SelectCols(df, SelectSeq(cols, LAMBDA c : HasCol(df, c))))

\* get_data_WB after the loop over the indicators
WBFrame(tables, a) ==
    LET r1 == MergeAll(tables, a.indicators.v)
        r2 == IF r1.st = "ok" THEN FilterFromYear(r1.df, Year, a.start_year) ELSE r1
        r3 == IF r2.st = "ok" THEN FilterToYear(r2.df, Year, a.end_year) ELSE r2
    IN IF r3.st = "ok" THEN WBReorder(r3.df, a.indicators.v) ELSE r3

\* one pass of the loop over indicators.items(): wbdata.get_data for the next
\* indicator answers raw_data; the last pass runs the rest of the function
WBFetch(raw_data) ==
    /\ fn = "WB"
    /\ pc = "fetching"
    /\ Len(sent) < Len(args.indicators.v)
    /\ LET item == args.indicators.v[Len(sent) + 1]
           table == WBTable(raw_data, item[2])
           tables == Append(all_data, table.df)
       IN /\ sent' = Append(sent, [indicator |-> item[1], country |-> args.countries])
          /\ got' = Append(got, raw_data)
          /\ IF table.st # "ok"
             THEN pc' = "done" /\ ret' = table /\ UNCHANGED all_data
             ELSE /\ all_data' = tables
                  /\ IF Len(tables) = Len(args.indicators.v)
                     THEN pc' = "done" /\ ret' = WBFrame(tables, args)
                     ELSE UNCHANGED <<pc, ret>>
    /\ UNCHANGED <<fn, args, csv, base_url, params, all_records>>

\* get_data_WB when indicators is empty: the loop body never runs
WBNoIndicator ==
    /\ fn = "WB"
    /\ pc = "fetching"
    /\ Len(args.indicators.v) = 0
    /\ pc' = "done"
    /\ ret' = WBFrame(all_data, args)
    /\ UNCHANGED <<fn, args, csv, base_url, params, all_records, all_data, sent, got>>

----------------------------------------------------------------------------
(* Inputs of the GIDD pagination model *)

MaxRequests == 3
MaxPageLen == 1

SeqsUpTo(S, n) == UNION {[1..k -> S] : k \in 0..n}

TCD == <<"T", "C", "D">>
MLI == <<"M", "L", "I">>
Wet == <<"W", "e", "t">>
Geo == <<"G", "e", "o">>
Flood == <<"F", "l", "o", "o", "d">>
Quake == <<"Q", "u", "a", "k", "e">>
figure == <<"f", "i", "g", "u", "r", "e">>

\* one object of a page's "results", with the keys as the API spells them
GIDDRecord(code, y, cat, type, fig) ==
    <<<<<<"I", "S", "O", "3">>, PyStr(code)>>,
      <<<<"Y", "e", "a", "r">>, y>>,
      <<<<"S", "t", "a", "r", "t", " ", "D", "a", "t", "e">>, PyStr(<<"d">>)>>,
      <<<<"H", "a", "z", "a", "r", "d", " ", "C", "a", "t", "e", "g", "o", "r", "y", " ",
          "N", "a", "m", "e">>, PyStr(cat)>>,
      <<<<"H", "a", "z", "a", "r", "d", " ", "T", "y", "p", "e", " ", "N", "a", "m", "e">>,
        PyStr(type)>>,
      <<<<"F", "i", "g", "u", "r", "e">>, PyInt(fig)>>>>

PageRecords ==
    {GIDDRecord(TCD, PyInt(2017), Wet, Flood, 1), GIDDRecord(MLI, PyInt(2018), Geo, Quake, 2)}

NextURLs == {<<"?", "p", "=", "2">>, <<"?", "p", "=", "3">>}

\* what a response's "next" may be: no key, null, an empty string, a URL
NextValues == {Absent, None, PyStr(<<>>)} \cup {PyStr(u) : u \in NextURLs}

ResultsValues == {Absent} \cup {PyList(l) : l \in SeqsUpTo(PageRecords, MaxPageLen)}

Responses ==
    [status : {200}, js : [results : ResultsValues, next : NextValues]]
    \cup [status : {404, 500}, js : {[results |-> Absent, next |-> Absent]}]

GIDDArgs(sy) ==
    [client_id |-> "id", limit |-> DefaultLimit, iso3 |-> None, start_year |-> sy,
     end_year |-> None, hazard_category_name |-> None, hazard_type_name |-> None,
     indicators |-> None]

\* the state on entry to get_data_GIDD, lines 211-213
GIDDEntry(a) ==
    /\ fn = "GIDD"
    /\ pc = "fetching"
    /\ args = a
    /\ csv = EmptyDF
    /\ base_url = GIDD_base_url
    /\ params = GIDDParams(a)
    /\ all_records = <<>>
    /\ all_data = <<>>
    /\ sent = <<>>
    /\ got = <<>>
    /\ ret = NoRet

InitGIDD == GIDDEntry(GIDDArgs(PyInt(2018)))

NextGIDD == \E resp \in Responses : Len(sent) < MaxRequests /\ GIDDRequest(resp)

SpecGIDD == InitGIDD /\ [][NextGIDD]_vars

----------------------------------------------------------------------------
(* Inputs of the World Bank model *)

MaxWBRecords == 2

Chad == <<"C", "h", "a", "d">>
Mali == <<"M", "a", "l", "i">>
GDP == <<"G", "D", "P">>
Pop == <<"P", "o", "p">>
Y2010 == <<"2", "0", "1", "0">>
Y2011 == <<"2", "0", "1", "1">>

\* one record of wbdata.get_data
WBRecord(date, val, name, id, code) ==
    [date |-> date, value |-> val, country |-> [id |-> id, value |-> name],
     countryiso3code |-> code]

\* the last record has no countryiso3code and no value
WBRecords ==
    {WBRecord(Y2010, PyInt(1), Chad, <<"T", "D">>, PyStr(TCD)),
     WBRecord(Y2011, PyInt(2), Chad, <<"T", "D">>, PyStr(TCD)),
     WBRecord(Y2010, None, Mali, MLI, Absent)}

WBResponses == SeqsUpTo(WBRecords, MaxWBRecords)

WBIndicators ==
    {<<>>,
     <<<<<<"N", "Y", ".", "G", "D", "P">>, GDP>>>>,
     <<<<<<"N", "Y", ".", "G", "D", "P">>, GDP>>, <<<<"S", "P", ".", "P", "O", "P">>, Pop>>>>}

WBArgs(ind, sy, ey) ==
    [indicators |-> PyDict(ind), countries |-> PyStr(all), start_year |-> sy, end_year |-> ey]

\* the state on entry to get_data_WB, line 162
WBEntry(a) ==
    /\ fn = "WB"
    /\ pc = "fetching"
    /\ args = a
    /\ csv = EmptyDF
    /\ base_url = <<>>
    /\ params = <<>>
    /\ all_records = <<>>
    /\ all_data = <<>>
    /\ sent = <<>>
    /\ got = <<>>
    /\ ret = NoRet

InitWB ==
    \E ind \in WBIndicators, sy \in {None, PyInt(0), PyInt(2011)},
       ey \in {None, PyInt(0), PyInt(2010)} :
        WBEntry(WBArgs(ind, sy, ey))

WBStep == \E raw_data \in WBResponses : WBFetch(raw_data)

NextWB == WBStep \/ WBNoIndicator

SpecWB == InitWB /\ [][NextWB]_vars

----------------------------------------------------------------------------
(* Inputs of the HDI model *)

MaxHDIRows == 2

hdi == <<"h", "d", "i">>
le == <<"l", "e">>
hdi_1990 == <<"h", "d", "i", "_", "1", "9", "9", "0">>
hdi_2000 == <<"h", "d", "i", "_", "2", "0", "0", "0">>
le_1990 == <<"l", "e", "_", "1", "9", "9", "0">>
le_2000 == <<"l", "e", "_", "2", "0", "0", "0">>
hdi_rank_2020 == <<"h", "d", "i", "_", "r", "a", "n", "k", "_", "2", "0", "2", "0">>
hdi_code == <<"h", "d", "i", "_", "c", "o", "d", "e">>
gdi_1990 == <<"g", "d", "i", "_", "1", "9", "9", "0">>

\* the metric columns a file may have, in file order
HDIColumnPool == <<hdi_1990, hdi_2000, le_1990, le_2000, hdi_rank_2020, hdi_code, gdi_1990>>

HDIHeaders ==
    {<<iso3, country, region>> \o SelectSeq(HDIColumnPool, LAMBDA c : c \in S) :
        S \in SUBSET SeqToSet(HDIColumnPool)}

RowCodes == <<TCD, MLI, <<"P", "E", "R">>, <<"F", "J", "I">>>>
RowNames == <<Chad, Mali, <<"P", "e", "r", "u">>, <<"F", "i", "j", "i">>>>

\* row r of a file: its identity cells, then a different number in every column
HDIRow(header, r) ==
    [k \in 1..Len(header) |->
        CASE header[k] = iso3 -> PyStr(RowCodes[r])
          [] header[k] = country -> PyStr(RowNames[r])
          [] header[k] = region -> PyStr(<<"A", "F">>)
          [] OTHER -> PyInt(10 * r + k)]

HDIFile(header, n) == DF(header, [r \in 1..n |-> HDIRow(header, r)])

HDIIndicators ==
    {<<>>,
     <<<<hdi, <<"H", "D", "I">>>>>>,
     <<<<hdi, <<"H", "D", "I">>>>, <<le, <<"L", "E">>>>>>}

HDIArgs(ind, c, sy, ey) ==
    [indicators |-> PyDict(ind), countries |-> c, start_year |-> sy, end_year |-> ey]

\* the state on entry to a function that reads no more than its arguments and a file
FileEntry(f, file, a) ==
    /\ fn = f
    /\ pc = "call"
    /\ args = a
    /\ csv = file
    /\ base_url = <<>>
    /\ params = <<>>
    /\ all_records = <<>>
    /\ all_data = <<>>
    /\ sent = <<>>
    /\ got = <<>>
    /\ ret = NoRet

\* the file of get_data_HDI spells its header with capitals and spaces
RawHeader(header) ==
    [k \in 1..Len(header) |->
        IF header[k] = iso3 THEN <<" ", "I", "S", "O", "3">>
        ELSE IF header[k] = country THEN <<"C", "o", "u", "n", "t", "r", "y", " ">>
        ELSE IF header[k] = le_1990 THEN <<"L", "E", " ", "1", "9", "9", "0">>
        ELSE header[k]]

InitReshape ==
    \E header \in HDIHeaders, n \in 0..MaxHDIRows, ind \in HDIIndicators :
        FileEntry("reshape_long_HDI", HDIFile(header, n), HDIArgs(ind, None, None, None))

InitHDI ==
    \E header \in {h \in HDIHeaders : Len(h) <= 5}, n \in 0..MaxHDIRows,
       ind \in HDIIndicators,
       c \in {None, PyStr(<<"c", "h", "a", "d">>)},
       sy \in {None, PyInt(0), PyInt(2000)}, ey \in {None, PyInt(0), PyInt(1990)} :
        FileEntry("HDI", DF(RawHeader(header), HDIFile(header, n).rows), HDIArgs(ind, c, sy, ey))

InitSpecHDI == InitReshape \/ InitHDI

NextHDI == CallReshape \/ CallHDI

SpecHDI == InitSpecHDI /\ [][NextHDI]_vars

----------------------------------------------------------------------------
(* Inputs of the model of the four calls with their filters *)

MaxRows == 2

Displaced == <<"D", "i", "s", "p", "l", "a", "c", "e", "d">>
Type == <<"T", "y", "p", "e">>
deaths == <<"d", "e", "a", "t", "h", "s">>

\* the rows a file or a page may hold; the last has a year that is no number
RowPool ==
    {GIDDRecord(TCD, PyInt(2017), Wet, Flood, 1),
     GIDDRecord(MLI, PyInt(2018), Geo, Quake, 2),
     GIDDRecord(TCD, PyStr(<<"n", "/", "a">>), Geo, Flood, 3)}

Tables == SeqsUpTo(RowPool, MaxRows)

RowHeader == Keys(GIDDRecord(TCD, NA, Wet, Flood, 0))

\* what read_csv returns for a file with these rows
IDMCFile(records) == DF(RowHeader, [r \in 1..Len(records) |-> Values(records[r])])

\* a one-page answer of the API
SinglePage(records) == [status |-> 200, js |-> [results |-> PyList(records), next |-> None]]

Iso3Args == {None, PyStr(TCD), PyList(<<MLI, TCD>>), PyList(<<>>), PyStr(all)}
StartYearArgs == {None, PyInt(0), PyInt(2018)}
EndYearArgs == {None, PyInt(0), PyInt(2017)}
CategoryArgs == {None, PyStr(<<"W", "E", "T">>), PyStr(<<>>)}
TypeArgs == {None, PyStr(<<"f", "l", "o", "o", "d">>)}
IndicatorArgs ==
    {None,
     PyDict(<<<<figure, Displaced>>, <<hazard_type_name, Type>>>>),
     PyDict(<<<<deaths, <<"D", "e", "a", "t", "h", "s">>>>>>)}

RowArgs ==
    [client_id : {"id"}, limit : {DefaultLimit}, iso3 : Iso3Args, start_year : StartYearArgs,
     end_year : EndYearArgs, hazard_category_name : CategoryArgs,
     hazard_type_name : TypeArgs, indicators : IndicatorArgs]

InitIDMC == \E records \in Tables, a \in RowArgs : FileEntry("IDMC", IDMCFile(records), a)

InitGIDDRows == \E a \in RowArgs : GIDDEntry(a)

Init == InitIDMC \/ InitGIDDRows \/ InitHDI \/ InitWB

GIDDSinglePage == \E records \in Tables : GIDDRequest(SinglePage(records))

Next == CallIDMC \/ GIDDSinglePage \/ CallHDI \/ WBStep \/ WBNoIndicator

Spec == Init /\ [][Next]_vars

----------------------------------------------------------------------------
(* Pagination: C1, C2, C3 *)

HasNextURL(resp) == resp.js.next.t = "str" /\ Len(resp.js.next.v) > 0

\* pages p1..pn: each a success with a results array, each but the last with a next
\* URL, the last with no next (absent or null)
IsChain(pages) ==
    /\ Len(pages) >= 1
    /\ \A i \in 1..Len(pages) :
          /\ pages[i].status = 200
          /\ pages[i].js.results.t = "list"
          /\ i < Len(pages) => HasNextURL(pages[i])
          /\ i = Len(pages) => pages[i].js.next \in {Absent, None}

\* C1: when get_data_GIDD has fetched a chain of pages p1..pn, the records it
\* assembled are results(p1) ++ ... ++ results(pn): every page once, in page order,
\* element order kept, nothing else.
C1_Concatenation ==
    (pc = "done" /\ IsChain(got)) =>
        all_records = Flatten([i \in 1..Len(got) |-> got[i].js.results.v])

\* a chain of two pages, each with a record, the two records different
C1_Witness ==
    /\ pc = "done"
    /\ IsChain(got)
    /\ Len(got) = 2
    /\ Len(got[1].js.results.v) = 1
    /\ Len(got[2].js.results.v) = 1
    /\ got[1].js.results.v # got[2].js.results.v

\* C2: a non-success status on any request of the loop ends the call in an error:
\* no table, the records of earlier pages are not returned, the failing request is
\* the last request (no later request, no retry).
C2_ErrorAborts ==
    \A i \in 1..Len(got) :
        got[i].status \in 400..599 =>
            /\ i = Len(got)
            /\ Len(sent) = i
            /\ pc = "done"
            /\ ret.st = "error"
            /\ ret.df = EmptyDF

\* the second request fails after a first page that delivered a record
C2_Witness ==
    /\ Len(got) = 2
    /\ got[2].status = 404
    /\ Len(all_records) = 1
    /\ ret.st = "error"

\* C3: the first request goes to the base endpoint with client_id and limit; every
\* later request goes to the next URL of the response before it, with no parameters;
\* a response is followed by a request exactly when it carries a next URL: the loop
\* is over as soon as a response has none and is never over while one has.
C3_CursorProtocol ==
    /\ Len(sent) >= 1 =>
          /\ sent[1].url = GIDD_base_url
          /\ sent[1].params = <<<<"client_id", args.client_id>>, <<"limit", args.limit>>>>
    /\ \A i \in 2..Len(sent) :
          /\ HasNextURL(got[i - 1])
          /\ sent[i].url = got[i - 1].js.next.v
          /\ sent[i].params = <<>>
    /\ Len(sent) = Len(got)
    /\ \A i \in 1..Len(got) :
          got[i].status = 200 =>
              (HasNextURL(got[i]) <=> (Len(sent) > i \/ pc = "fetching"))
    /\ pc = "fetching" <=> (got = <<>> \/ (got[Len(got)].status = 200 /\ HasNextURL(got[Len(got)])))

\* three requests: the base endpoint, then two next URLs, then a page without next
C3_Witness ==
    /\ Len(sent) = 3
    /\ pc = "done"
    /\ ret.st = "ok"
    /\ sent[2].url # sent[3].url

----------------------------------------------------------------------------
(* Reshape: C6, C10 *)

IdCols == {iso3, country, region}

MetricCols(df) == SelectSeq(df.cols, LAMBDA c : c \notin IdCols)

\* the table has, for its N dictionary metrics and Y years, one column
\* <metric>_<year> per pair and no other column besides the identity columns
IsGrid(df, ind) ==
    LET mc == SeqToSet(MetricCols(df))
        years == {RSplit1(c)[2] : c \in {x \in mc : Len(RSplit1(x)) = 2}}
    IN /\ IdCols \subseteq SeqToSet(df.cols)
       /\ \A c \in mc : /\ Len(RSplit1(c)) = 2
                         /\ HasKey(ind, RSplit1(c)[1])
                         /\ IsDigits(RSplit1(c)[2])
       /\ \A i \in 1..Len(ind), y \in years : (ind[i][1] \o <<"_">> \o y) \in mc

GridYears(df) == {RSplit1(c)[2] : c \in SeqToSet(MetricCols(df))}

\* the rows of the long table that come from row r and column c of the wide table
LongRowsOf(long, wide, r, c) ==
    {k \in 1..Len(long.rows) :
        /\ \A id \in IdCols : Cell(long, long.rows[k], id) = Cell(wide, wide.rows[r], id)
        /\ Cell(long, long.rows[k], metric) = PyStr(RSplit1(c)[1])
        /\ Cell(long, long.rows[k], year) = PyInt(DigitsVal(RSplit1(c)[2]))
        /\ Cell(long, long.rows[k], value) = Cell(wide, wide.rows[r], c)}

ReshapesGrid ==
    /\ ret.st = "ok"
    /\ Len(ret.df.rows) = Len(csv.rows) * Len(args.indicators.v) * Cardinality(GridYears(csv))
    /\ \A r \in 1..Len(csv.rows), c \in SeqToSet(MetricCols(csv)) :
          Cardinality(LongRowsOf(ret.df, csv, r, c)) = 1

\* C6: on a table of R rows with one column <metric>_<year> for each of N dictionary
\* metrics and Y years, reshape_long_HDI returns R*N*Y rows, one per (row, column),
\* with the metric and the year split at the last underscore and the cell's value.
C6_GridReshape ==
    (fn = "reshape_long_HDI" /\ pc = "done" /\ IsGrid(csv, args.indicators.v)) => ReshapesGrid

\* C6 for tables that have a row and a metric column: there the reshape is as C6 says
C6_GridReshapeNonEmpty ==
    (/\ fn = "reshape_long_HDI"
     /\ pc = "done"
     /\ IsGrid(csv, args.indicators.v)
     /\ csv.rows # <<>>
     /\ MetricCols(csv) # <<>>) => ReshapesGrid

\* two rows, two metrics, two years
C6_NonEmptyWitness ==
    /\ fn = "reshape_long_HDI"
    /\ pc = "done"
    /\ IsGrid(csv, args.indicators.v)
    /\ Len(csv.rows) = 2
    /\ Len(MetricCols(csv)) = 4
    /\ Len(ret.df.rows) = 8

\* C10 as stated: wherever reshape_long_HDI succeeds, every output row's metric is a
\* key of the indicator dictionary and its metric_name is that key's display name.
C10_MetricIsKey ==
    (fn = "reshape_long_HDI" /\ pc = "done" /\ ret.st = "ok") =>
        \A k \in 1..Len(ret.df.rows) :
            LET m == Cell(ret.df, ret.df.rows[k], metric).v
            IN /\ HasKey(args.indicators.v, m)
               /\ Cell(ret.df, ret.df.rows[k], metric_name) = PyStr(Lookup(args.indicators.v, m))

\* C10 amended: wherever reshape_long_HDI succeeds, every output row's metric is a
\* dictionary key or starts with <key>_ for some key; its metric_name is the display
\* name when the metric is a key and missing when it is not.
C10_MetricHasKeyPrefix ==
    (fn = "reshape_long_HDI" /\ pc = "done" /\ ret.st = "ok") =>
        \A k \in 1..Len(ret.df.rows) :
            LET m == Cell(ret.df, ret.df.rows[k], metric).v
                ind == args.indicators.v
            IN /\ \E i \in 1..Len(ind) : StartsWith(m \o <<"_">>, ind[i][1] \o <<"_">>)
               /\ Cell(ret.df, ret.df.rows[k], metric_name) =
                     IF HasKey(ind, m) THEN PyStr(Lookup(ind, m)) ELSE NA

\* key hdi and column hdi_rank_2020: a row with metric hdi_rank and no metric_name,
\* beside a row with metric hdi and its display name
C10_Witness ==
    /\ fn = "reshape_long_HDI"
    /\ pc = "done"
    /\ ret.st = "ok"
    /\ \E k \in 1..Len(ret.df.rows) :
          /\ Cell(ret.df, ret.df.rows[k], metric) = PyStr(<<"h", "d", "i", "_", "r", "a", "n", "k">>)
          /\ Cell(ret.df, ret.df.rows[k], metric_name) = NA
    /\ \E k \in 1..Len(ret.df.rows) :
          /\ Cell(ret.df, ret.df.rows[k], metric) = PyStr(hdi)
          /\ Cell(ret.df, ret.df.rows[k], metric_name) = PyStr(<<"H", "D", "I">>)

----------------------------------------------------------------------------
(* World Bank: C5, C9 *)

OutKey(df, row) == <<Cell(df, row, Country), Cell(df, row, ISO3), Cell(df, row, Year)>>

\* every indicator fetched, each key at most once in an indicator's records
UniqueKeysFetched ==
    /\ Len(got) = Len(args.indicators.v)
    /\ \A i \in 1..Len(got) :
          /\ \A r \in 1..Len(got[i]) : IsIntLiteral(got[i][r].date)
          /\ \A r1, r2 \in 1..Len(got[i]) :
                WBRows(got[i])[r1][1] = WBRows(got[i])[r2][1]
                /\ WBRows(got[i])[r1][2] = WBRows(got[i])[r2][2]
                /\ WBRows(got[i])[r1][3] = WBRows(got[i])[r2][3] => r1 = r2

FetchedKey(i, r) == <<WBRows(got[i])[r][1], WBRows(got[i])[r][2], WBRows(got[i])[r][3]>>

\* the output is the outer join of what was fetched: one row per key of any
\* indicator, with the indicator's value where it has the key and missing elsewhere
IsOuterJoin ==
    LET ind == args.indicators.v
        keys == {FetchedKey(i, r) : <<i, r>> \in
                    {<<i, r>> \in (1..Len(got)) \X (1..MaxWBRecords + 1) : r <= Len(got[i])}}
    IN /\ ret.st = "ok"
       /\ \A key \in keys :
             Cardinality({k \in 1..Len(ret.df.rows) : OutKey(ret.df, ret.df.rows[k]) = key}) = 1
       /\ \A k \in 1..Len(ret.df.rows) :
             /\ OutKey(ret.df, ret.df.rows[k]) \in keys
             /\ \A i \in 1..Len(ind) :
                   LET has == {r \in 1..Len(got[i]) :
                                  FetchedKey(i, r) = OutKey(ret.df, ret.df.rows[k])}
                   IN Cell(ret.df, ret.df.rows[k], ind[i][2]) =
                         IF has = {} THEN NA
                         ELSE WBRows(got[i])[CHOOSE r \in has : TRUE][4]

\* C5: with two or more indicators and no year bounds, for any record lists (an empty
\* list included) with each key at most once per indicator, the output has exactly
\* one row per key of any indicator, with each indicator's value or a missing value.
C5_OuterJoin ==
    (/\ fn = "WB"
     /\ pc = "done"
     /\ Len(args.indicators.v) >= 2
     /\ args.start_year = None
     /\ args.end_year = None
     /\ UniqueKeysFetched) => IsOuterJoin

\* C5 when no indicator's record list is empty: there the output is the outer join
C5_OuterJoinNonEmptyLists ==
    (/\ fn = "WB"
     /\ pc = "done"
     /\ Len(args.indicators.v) >= 2
     /\ args.start_year = None
     /\ args.end_year = None
     /\ UniqueKeysFetched
     /\ \A i \in 1..Len(got) : got[i] # <<>>) => IsOuterJoin

\* Chad 2010 fetched for the first indicator only: one row, the second missing
C5_NonEmptyWitness ==
    /\ fn = "WB"
    /\ pc = "done"
    /\ Len(args.indicators.v) = 2
    /\ args.start_year = None
    /\ args.end_year = None
    /\ UniqueKeysFetched
    /\ Len(got[1]) = 2
    /\ Len(got[2]) = 1
    /\ got[2][1] = got[1][2]
    /\ got[1][1] # got[1][2]
    /\ Len(ret.df.rows) = 2
    /\ \E k \in 1..2 : Cell(ret.df, ret.df.rows[k], Pop) = NA

\* C9: get_data_WB with an empty indicator mapping, whatever start_year and end_year,
\* makes no fetch, does not fail, and returns a table of zero rows whose columns are
\* Country, ISO3, Year in that order.
C9_EmptyMapping ==
    (fn = "WB" /\ pc = "done" /\ args.indicators.v = <<>>) =>
        /\ sent = <<>>
        /\ ret.st = "ok"
        /\ ret.df.cols = <<Country, ISO3, Year>>
        /\ ret.df.rows = <<>>

\* the call with an empty mapping and both year bounds supplied has returned
C9_Witness ==
    /\ fn = "WB"
    /\ pc = "done"
    /\ args.indicators.v = <<>>
    /\ args.start_year = PyInt(2011)
    /\ args.end_year = PyInt(0)
    /\ ret.st = "ok"

----------------------------------------------------------------------------
(* Filters and selection: C4, C7, C8 *)

Done(f) == fn = f /\ pc = "done"

\* the call's outcome had it been made with the arguments b on the same data
Outcome(b) ==
    CASE fn = "HDI" -> get_data_HDI(csv, b)
      [] fn = "IDMC" -> get_data_IDMC(csv, b)
      [] fn = "WB" -> WBFrame(all_data, b)
      [] fn = "GIDD" -> GIDDFrame(all_records, b)

NoYears(a) == [a EXCEPT !.start_year = None, !.end_year = None]

YearColOf(f) == IF f = "WB" THEN Year ELSE year

\* the year y is within the bounds that are supplied
InYears(y, a) ==
    /\ a.start_year # None => (y.t = "int" /\ y.v >= a.start_year.v)
    /\ a.end_year # None => (y.t = "int" /\ y.v <= a.end_year.v)

\* the rows returned are the rows the call returns without year bounds that are
\* within the bounds: none outside them is kept and none within them is dropped
YearsFiltered ==
    LET all_rows == Outcome(NoYears(args)).df
    IN ret.df.rows =
          SelectSeq(all_rows.rows, LAMBDA row : InYears(Cell(all_rows, row, YearColOf(fn)), args))

\* C4: for get_data_HDI, get_data_IDMC, get_data_WB and get_data_GIDD and any integer
\* start_year and end_year, each supplied or omitted, 0 included: every returned row's
\* year is within the supplied bounds and no row within them is dropped.
C4_YearBounds ==
    (fn \in {"HDI", "IDMC", "WB", "GIDD"} /\ pc = "done" /\ ret.st = "ok") => YearsFiltered

\* C4 for get_data_HDI and get_data_WB, which test the bounds with `is not None`, and
\* for the other two when no supplied bound is 0
C4_YearBoundsNotZero ==
    (/\ fn \in {"HDI", "IDMC", "WB", "GIDD"}
     /\ pc = "done"
     /\ ret.st = "ok"
     /\ fn \in {"IDMC", "GIDD"} => (args.start_year # PyInt(0) /\ args.end_year # PyInt(0)))
    => YearsFiltered

C4_NotZeroWitness ==
    /\ Done("IDMC")
    /\ ret.st = "ok"
    /\ args.start_year = PyInt(2018)
    /\ Len(csv.rows) = 2
    /\ Len(ret.df.rows) = 1

\* the table get_data_IDMC and get_data_GIDD filter: normalized names, numeric year
Loaded ==
    IF fn = "IDMC" THEN CoerceYear(NormalizeColumns(csv))
    ELSE CoerceYear(NormalizeColumns(DataFrameOfRecords(all_records)))

\* C7: with an explicit indicator mapping, get_data_IDMC and get_data_GIDD return the
\* columns iso3, year, start_date, then the requested indicator columns under their
\* display names in the mapping's order; the call fails when a requested key is no
\* column of the table.
C7_SelectAndRename ==
    (/\ fn \in {"IDMC", "GIDD"}
     /\ pc = "done"
     /\ args.indicators.t = "dict"
     /\ Loaded.st = "ok") =>
        IF \A i \in 1..Len(args.indicators.v) : HasCol(Loaded.df, args.indicators.v[i][1])
        THEN ret.st = "ok" /\ ret.df.cols = <<iso3, year, start_date>> \o Values(args.indicators.v)
        ELSE ret.st = "error"

\* C7 as the code has it: get_data_IDMC puts start_date before year and renames,
\* get_data_GIDD keeps the keys as the column names
C7_SelectAsCoded ==
    (/\ fn \in {"IDMC", "GIDD"}
     /\ pc = "done"
     /\ args.indicators.t = "dict"
     /\ Loaded.st = "ok") =>
        IF \A i \in 1..Len(args.indicators.v) : HasCol(Loaded.df, args.indicators.v[i][1])
        THEN /\ ret.st = "ok"
             /\ ret.df.cols = IF fn = "IDMC"
                               THEN <<iso3, start_date, year>> \o Values(args.indicators.v)
                               ELSE <<iso3, year, start_date>> \o Keys(args.indicators.v)
        ELSE ret.st = "error"

\* a criterion is supplied when the argument is given; get_data_GIDD documents
\* iso3 = "all" as no restriction
Supplied(x) == x # None

Iso3Supplied == Supplied(args.iso3) /\ ~(fn = "GIDD" /\ args.iso3 = PyStr(all))

\* the row of the loaded table satisfies every supplied criterion
Matches(df, row) ==
    /\ Iso3Supplied =>
          Cell(df, row, iso3).v \in
             (IF args.iso3.t = "str" THEN {args.iso3.v} ELSE SeqToSet(args.iso3.v))
    /\ InYears(Cell(df, row, year), args)
    /\ Supplied(args.hazard_category_name) =>
          Lower(Cell(df, row, hazard_category_name).v) = Lower(args.hazard_category_name.v)
    /\ Supplied(args.hazard_type_name) =>
          Lower(Cell(df, row, hazard_type_name).v) = Lower(args.hazard_type_name.v)

NoCriteria(a) ==
    [a EXCEPT !.iso3 = None, !.start_year = None, !.end_year = None,
              !.hazard_category_name = None, !.hazard_type_name = None]

\* the rows returned are the rows of the loaded table that satisfy every supplied
\* criterion, in their order (each as the call returns it without any criterion)
RowsFiltered ==
    LET all_rows == Outcome(NoCriteria(args)).df.rows
        kept == SelectSeq([i \in 1..Len(Loaded.df.rows) |-> i],
                          LAMBDA i : Matches(Loaded.df, Loaded.df.rows[i]))
    IN ret.df.rows = [k \in 1..Len(kept) |-> all_rows[kept[k]]]

\* C8: the row filters of get_data_IDMC and get_data_GIDD are a conjunction: the rows
\* returned are the input rows that satisfy every supplied criterion, in their order,
\* the hazard criteria matching case-insensitively; with no criterion every row.
C8_Conjunction ==
    (fn \in {"IDMC", "GIDD"} /\ pc = "done" /\ ret.st = "ok") => RowsFiltered

\* C8 when every supplied criterion is a non-zero year, a non-empty text or a
\* non-empty list
C8_ConjunctionOfTruthy ==
    (/\ fn \in {"IDMC", "GIDD"}
     /\ pc = "done"
     /\ ret.st = "ok"
     /\ \A x \in {args.iso3, args.start_year, args.end_year, args.hazard_category_name,
                   args.hazard_type_name} : Supplied(x) => Truthy(x)
     /\ fn = "IDMC" => args.iso3 # PyStr(all)) => RowsFiltered

C8_TruthyWitness ==
    /\ Done("GIDD")
    /\ ret.st = "ok"
    /\ args.iso3 = PyStr(TCD)
    /\ args.hazard_type_name # None
    /\ args.start_year = None
    /\ args.end_year = PyInt(2017)
    /\ Len(all_records) = 2
    /\ Len(ret.df.rows) = 1

====
